---- MODULE Spec2Model ----
(***************************************************************************)
(* A model of src/playlist/tree.c: the playlist tree mutation engine       *)
(* (playlist_NodeCreate, NodeInsert, NodeAppend, NodeRemoveItem,           *)
(* NodeEmpty, NodeDelete) and the tree walking functions (GetNextItem,     *)
(* GetNextUncle, GetPrevItem, GetPrevUncle, playlist_GetNextLeaf,          *)
(* playlist_GetPrevLeaf, playlist_GetAllEnabledChildren).                  *)
(*                                                                         *)
(* A playlist_item_t* is a node number; 0 is the NULL pointer.  Node n has *)
(* i_id = n (ids are handed out in increasing order by the item            *)
(* allocator).  Arrays are 0-based in the source and 1-based sequences     *)
(* here; At(arr, i) reads slot i of the source.                            *)
(***************************************************************************)
EXTENDS Integers, Sequences, FiniteSets, TLC

\* ------------------------------------------------------------- bounds
\* Nodes the mutation specification may allocate.
MaxNodes == 3
\* Longest children array the mutation specification builds.
MaxChildren == 3
\* Reads of released memory one call may survive before the build aborts.
MaxStale == 2
\* Calls in one run of the mutation specification.
MaxCalls == 4
\* Nodes of the trees the traversal specification walks.
TravNodes == 5
\* Leaves of a walked tree that carry a mark (the duplicate flag or a play
\* count).
MaxMarked == 2
\* Nodes of the two trees the pairing specification builds.
PairNodes == 6
\* Nodes of the trees the deletion specification destroys.
DelNodes == 4
\* Nodes of the trees the leaf iteration steps through.
IterNodes == 4
\* Leaves of such a tree that carry a mark.
IterMarked == 1

NULL == 0

Max2(a, b) == IF a >= b THEN a ELSE b

Arena == Max2(Max2(MaxNodes, PairNodes), Max2(TravNodes, DelNodes))

Nodes == 1..Arena

VARIABLES
    i_children,   \* [Nodes -> Int]: p_item->i_children, -1 for a leaf
    pp_children,  \* [Nodes -> Seq(Nodes)]: p_item->pp_children
    p_parent,     \* [Nodes -> Nodes \cup {NULL}]: p_item->p_parent
    i_flags,      \* [Nodes -> SUBSET {"RO","SKIP","DBL"}]: p_item->i_flags
    i_nb_played,  \* [Nodes -> Nat]: p_item->p_input->i_nb_played
    all_items,    \* p_playlist->all_items, the item registry
    i_last_id,    \* p_playlist->i_last_playlist_id
    freed,        \* nodes whose memory playlist_ItemDelete has released
    fault,        \* the process aborted (assert, abort(), invalid access)
    events,       \* what the last call did, in order
    call,         \* the last call: its name, arguments and result
    n_calls,      \* the calls made so far
    reinserted,   \* some call inserted a node that was a child already
    p_input,      \* [Nodes -> Nat]: p_item->p_input, an item descriptor
    b_prefers_tree, \* [descriptors -> BOOLEAN]: p_input->b_prefers_tree
    playlist      \* p_playlist: p_root_category, p_root_onelevel,
                  \* b_always_tree, b_never_tree

vars == <<i_children, pp_children, p_parent, i_flags, i_nb_played, all_items,
          i_last_id, freed, fault, events, call, n_calls, reinserted,
          p_input, b_prefers_tree, playlist>>

\* ------------------------------------------------------------- arrays
At(arr, i) == arr[i + 1]

\* INSERT_ELEM( p_ar, i_oldsize, i_pos, elem ): realloc to i_oldsize + 1,
\* move the tail up, store elem at i_pos.
INSERT_ELEM(arr, size, pos, elem) ==
    SubSeq(arr, 1, pos) \o <<elem>> \o SubSeq(arr, pos + 1, size)

\* REMOVE_ELEM( p_ar, i_oldsize, i_pos ): move the tail down and shrink.  The
\* slot past the new end keeps its old content (the memmove does not clear
\* it) until the array is freed; the array that becomes empty is freed and
\* its pointer set to NULL.
REMOVE_ELEM(arr, size, pos) ==
    IF size <= 1 THEN <<>>
    ELSE SubSeq(arr, 1, pos) \o SubSeq(arr, pos + 2, size)
         \o SubSeq(arr, size, Len(arr))

\* ARRAY_APPEND( array, elem )
ARRAY_APPEND(arr, elem) == Append(arr, elem)

\* ARRAY_REMOVE( array, pos )
ARRAY_REMOVE(arr, pos) == SubSeq(arr, 1, pos) \o SubSeq(arr, pos + 2, Len(arr))

\* ARRAY_BSEARCH( array, ->i_id, int, key, answer ): binary search of an
\* array sorted by i_id; the answer is the index of key or -1.
RECURSIVE BSearch(_, _, _, _)
BSearch(arr, key, low, high) ==
    IF low > high THEN -1
    ELSE LET mid == (low + high) \div 2
             mv  == At(arr, mid)
         IN IF mv < key THEN BSearch(arr, key, mid + 1, high)
            ELSE IF mv > key THEN BSearch(arr, key, low, mid - 1)
            ELSE mid

ARRAY_BSEARCH(arr, key) == BSearch(arr, key, 0, Len(arr) - 1)

\* ------------------------------------------------------------- the heap
\* The operations are functions from heap to heap; an action applies one to
\* the current heap and stores the result.  ub is the number of reads of
\* released memory the call still survives (the build either aborts on such
\* a read or sees the bytes the object held when it was released).
Heap(ub) ==
    [i_children |-> i_children, pp_children |-> pp_children,
     p_parent |-> p_parent, i_flags |-> i_flags, all_items |-> all_items,
     i_last_id |-> i_last_id, freed |-> freed, fault |-> fault,
     p_input |-> p_input,
     events |-> <<>>, ub |-> ub, ret |-> "none"]

\* Statement sequencing: F applied to the value of v, which is computed
\* once.
Then(v, F(_)) == CHOOSE r \in {F(x) : x \in {v}} : TRUE

Emit(h, kind, id, arg) == [h EXCEPT !.events = Append(@, <<kind, id, arg>>)]

Abort(h) == [h EXCEPT !.fault = TRUE]

\* A read or write through pointer n.  Through a released node it is
\* undefined: the call aborts or goes on with the stale bytes.
Deref(h, n) ==
    IF h.fault THEN h
    ELSE IF n = NULL THEN Abort(h)
    ELSE IF n \in h.freed
         THEN IF h.ub = 0 THEN Abort(h) ELSE [h EXCEPT !.ub = @ - 1]
    ELSE h

\* playlist_ItemDelete( p_item ): releases the node.  Releasing it twice is
\* undefined as well.
playlist_ItemDelete(h, p_item) ==
    Then(Deref(h, p_item), LAMBDA h1 :
        IF h1.fault THEN h1
        ELSE Emit([h1 EXCEPT !.freed = @ \cup {p_item}], "freed", p_item, 0))

\* ------------------------------------------------------------- mutation
\* playlist_NodeInsert without its last assignment: the item's parent is
\* left as it was.
NodeInsertNoParent(h, p_item, p_par, i_position) ==
    IF p_par = NULL \/ h.i_children[p_par] = -1 THEN Abort(h)
    ELSE LET pos == IF i_position = -1 THEN h.i_children[p_par]
                    ELSE i_position
         IN [h EXCEPT
                !.pp_children[p_par] =
                    INSERT_ELEM(@, h.i_children[p_par], pos, p_item),
                !.i_children[p_par] = @ + 1]

\* playlist_NodeInsert putting the item at the end whatever the position.
NodeInsertAtEnd(h, p_item, p_par, i_position) ==
    IF p_par = NULL \/ h.i_children[p_par] = -1 THEN Abort(h)
    ELSE [h EXCEPT
             !.pp_children[p_par] =
                 INSERT_ELEM(@, h.i_children[p_par], h.i_children[p_par],
                             p_item),
             !.i_children[p_par] = @ + 1,
             !.p_parent[p_item] = p_par]

\* playlist_NodeInsert: assert the parent is a container, turn the end
\* sentinel -1 into the current count, INSERT_ELEM (which also counts
\* i_children up), set the item's parent.
NodeInsert(h, p_item, p_par, i_position) ==
    IF p_par = NULL \/ h.i_children[p_par] = -1 THEN Abort(h)
    ELSE LET pos == IF i_position = -1 THEN h.i_children[p_par]
                    ELSE i_position
         IN [h EXCEPT
                !.pp_children[p_par] =
                    INSERT_ELEM(@, h.i_children[p_par], pos, p_item),
                !.i_children[p_par] = @ + 1,
                !.p_parent[p_item] = p_par]

\* playlist_NodeAppend passing position 0 instead of the end sentinel.
NodeAppendFirst(h, p_item, p_par) == NodeInsert(h, p_item, p_par, 0)

\* playlist_NodeAppend: NodeInsert at the end sentinel.
NodeAppend(h, p_item, p_par) == NodeInsert(h, p_item, p_par, -1)

\* The loop of playlist_NodeRemoveItem from index i on: every slot that
\* holds p_item is removed with REMOVE_ELEM, and the index still moves on
\* after a removal.
RECURSIVE RemoveItemLoop(_, _, _, _)
RemoveItemLoop(h, p_item, p_par, i) ==
    IF i >= h.i_children[p_par] THEN h
    ELSE IF At(h.pp_children[p_par], i) = p_item
         THEN Then(Emit([h EXCEPT
                            !.pp_children[p_par] =
                                REMOVE_ELEM(@, h.i_children[p_par], i),
                            !.i_children[p_par] = @ - 1],
                        "detached", p_item, p_par),
                   LAMBDA h1 : RemoveItemLoop(h1, p_item, p_par, i + 1))
         ELSE RemoveItemLoop(h, p_item, p_par, i + 1)

\* playlist_NodeRemoveItem
NodeRemoveItem(h, p_item, p_par) ==
    Then(Deref(h, p_par), LAMBDA h1 :
        IF h1.fault THEN h1 ELSE RemoveItemLoop(h1, p_item, p_par, 0))

\* input_ItemNewWithType: a new item descriptor.  Descriptors are numbered
\* like nodes, and the new one takes the number of the node that is made
\* for it.
input_ItemNewWithType(h) == h.i_last_id + 1

\* playlist_ItemNewFromInput( p_obj, p_input ): a fresh node with the next
\* id for the descriptor, no children slot (i_children = -1), no parent, no
\* flags.
playlist_ItemNewFromInput(h, p_in) ==
    LET id == h.i_last_id + 1
    IN [h EXCEPT !.i_last_id = id,
                 !.i_children[id] = -1,
                 !.pp_children[id] = <<>>,
                 !.p_parent[id] = NULL,
                 !.i_flags[id] = {},
                 !.p_input[id] = p_in]

\* playlist_SendAddNotify( p_playlist, i_item_id, i_node_id, b_signal )
playlist_SendAddNotify(h, i_item_id, i_node_id) ==
    Emit(h, "added", i_item_id, i_node_id)

\* playlist_NodeCreate without the registration in all_items.
NodeCreateUnregistered(h, p_par, p_in) ==
    Then(playlist_ItemNewFromInput(
             h, IF p_in # NULL THEN p_in ELSE input_ItemNewWithType(h)),
         LAMBDA h1 :
    Then([h1 EXCEPT !.i_children[h1.i_last_id] = 0], LAMBDA h2 :
    Then(IF p_par # NULL THEN NodeAppend(h2, h2.i_last_id, p_par) ELSE h2,
         LAMBDA h3 :
             playlist_SendAddNotify(h3, h3.i_last_id,
                                    IF p_par # NULL THEN p_par ELSE -1))))

\* playlist_NodeCreate: a new item for the descriptor given, or for a new
\* descriptor when none is given (the new node is h.i_last_id),
\* i_children = 0 (an empty container), registered in all_items, appended
\* to the parent when one is given, then the add notification with the
\* parent's id or -1.
NodeCreate(h, p_par, p_in) ==
    Then(playlist_ItemNewFromInput(
             h, IF p_in # NULL THEN p_in ELSE input_ItemNewWithType(h)),
         LAMBDA h1 :
    Then([h1 EXCEPT !.i_children[h1.i_last_id] = 0,
                    !.all_items = ARRAY_APPEND(@, h1.i_last_id)], LAMBDA h2 :
    Then(IF p_par # NULL THEN NodeAppend(h2, h2.i_last_id, p_par) ELSE h2,
         LAMBDA h3 :
             playlist_SendAddNotify(h3, h3.i_last_id,
                                    IF p_par # NULL THEN p_par ELSE -1))))

\* playlist_NodeAddInput: how a leaf enters the tree.  A new item (a leaf)
\* for a new descriptor is registered and appended to the parent.
playlist_NodeAddInput(h, p_par) ==
    Then(playlist_ItemNewFromInput(h, input_ItemNewWithType(h)), LAMBDA h1 :
    Then([h1 EXCEPT !.all_items = ARRAY_APPEND(@, h1.i_last_id)], LAMBDA h2 :
    Then(NodeAppend(h2, h2.i_last_id, p_par), LAMBDA h3 :
         playlist_SendAddNotify(h3, h3.i_last_id, p_par))))

\* playlist_DeleteFromItemId( p_playlist, i_id ): the item registry's
\* delete.  An id that is not registered is left alone; otherwise the item
\* is announced as deleted, taken out of all_items, detached from its
\* parent and released.
playlist_DeleteFromItemId(h, i_id) ==
    LET i == ARRAY_BSEARCH(h.all_items, i_id)
    IN IF h.fault \/ i = -1 THEN h
       ELSE
         Then(Emit(Emit([h EXCEPT !.all_items = ARRAY_REMOVE(@, i)],
                        "item-deleted", i_id, 0),
                   "unregistered", i_id, 0), LAMBDA h1 :
         Then(IF h1.p_parent[At(h.all_items, i)] # NULL
              THEN NodeRemoveItem(h1, At(h.all_items, i),
                                  h1.p_parent[At(h.all_items, i)])
              ELSE h1, LAMBDA h2 :
              playlist_ItemDelete(h2, At(h.all_items, i))))

\* p_root->pp_children[i] as the loops of NodeEmpty and NodeDelete read it.
\* The loops count i down from the count they started with, so after a
\* removal i may lie past the end: the slot then holds what REMOVE_ELEM
\* left there, or the array is gone.
ReadChild(h, p_root, i) ==
    IF h.fault THEN h
    ELSE IF i < h.i_children[p_root] THEN h
    ELSE IF i < Len(h.pp_children[p_root]) /\ h.ub > 0
         THEN [h EXCEPT !.ub = @ - 1]
    ELSE Abort(h)

RECURSIVE NodeDelete(_, _, _, _)
RECURSIVE DeleteLoop(_, _, _, _, _)

RECURSIVE DeleteLoopNoForce(_, _, _, _, _)

\* playlist_NodeDelete's tail without the read-only test: the node is
\* destroyed whatever its flags and b_force are.
DeleteNodeAlways(h1, p_root, b_force) ==
    IF h1.fault THEN h1
    ELSE
      LET i == ARRAY_BSEARCH(h1.all_items, p_root)
      IN Then(IF i # -1
              THEN Emit(Emit([h1 EXCEPT !.all_items = ARRAY_REMOVE(@, i)],
                             "item-deleted", p_root, 0),
                        "unregistered", p_root, 0)
              ELSE Emit(h1, "item-deleted", p_root, 0), LAMBDA h3 :
         Then(IF h3.p_parent[p_root] # NULL
              THEN NodeRemoveItem(h3, p_root, h3.p_parent[p_root])
              ELSE h3, LAMBDA h4 :
         Then(playlist_ItemDelete(h4, p_root), LAMBDA h5 :
              IF h5.fault THEN h5 ELSE [h5 EXCEPT !.ret = "VLC_SUCCESS"])))

\* playlist_NodeDelete's tail releasing the node first and telling the
\* registry, the observers and the parent afterwards.
DeleteNodeReleaseFirst(h1, p_root, b_force) ==
    IF h1.fault THEN h1
    ELSE IF "RO" \in h1.i_flags[p_root] /\ ~b_force
    THEN [h1 EXCEPT !.ret = "VLC_SUCCESS"]
    ELSE
      Then(playlist_ItemDelete(h1, p_root), LAMBDA h2 :
      Then(ARRAY_BSEARCH(h2.all_items, p_root), LAMBDA i :
      Then(IF i # -1
           THEN Emit(Emit([h2 EXCEPT !.all_items = ARRAY_REMOVE(@, i)],
                          "item-deleted", p_root, 0),
                     "unregistered", p_root, 0)
           ELSE Emit(h2, "item-deleted", p_root, 0), LAMBDA h3 :
      Then(IF h3.p_parent[p_root] # NULL
           THEN NodeRemoveItem(h3, p_root, h3.p_parent[p_root])
           ELSE h3, LAMBDA h4 :
           IF h4.fault THEN h4 ELSE [h4 EXCEPT !.ret = "VLC_SUCCESS"]))))

\* The tail of playlist_NodeDelete, after the children loop: unless the
\* node is read-only and the call is not forced, the "item-deleted"
\* variable is set, the node is looked up in all_items and removed, it is
\* detached from its parent and released.
DeleteNode(h1, p_root, b_force) ==
    IF h1.fault THEN h1
    ELSE IF "RO" \in h1.i_flags[p_root] /\ ~b_force
    THEN [h1 EXCEPT !.ret = "VLC_SUCCESS"]
    ELSE
      LET i == ARRAY_BSEARCH(h1.all_items, p_root)
      IN Then(IF i # -1
              THEN Emit(Emit([h1 EXCEPT !.all_items = ARRAY_REMOVE(@, i)],
                             "item-deleted", p_root, 0),
                        "unregistered", p_root, 0)
              ELSE Emit(h1, "item-deleted", p_root, 0), LAMBDA h3 :
         Then(IF h3.p_parent[p_root] # NULL
              THEN NodeRemoveItem(h3, p_root, h3.p_parent[p_root])
              ELSE h3, LAMBDA h4 :
         Then(playlist_ItemDelete(h4, p_root), LAMBDA h5 :
              IF h5.fault THEN h5 ELSE [h5 EXCEPT !.ret = "VLC_SUCCESS"])))

\* playlist_NodeDelete without the test for a leaf at its head.
NodeDeleteNoLeafTest(h, p_root, b_delete_items, b_force) ==
    Then(Deref(h, p_root), LAMBDA h0 :
        IF h0.fault THEN h0
        ELSE Then(DeleteLoop(h0, p_root, b_delete_items, b_force,
                             h0.i_children[p_root] - 1),
                  LAMBDA h1 : DeleteNode(h1, p_root, b_force)))

\* The loop of playlist_NodeDelete deleting the sub-containers without
\* force, as the loop of playlist_NodeEmpty does.
DeleteLoopNoForce(h, p_root, b_delete_items, b_force, i) ==
    IF h.fault \/ i < 0 THEN h
    ELSE
      Then(ReadChild(h, p_root, i), LAMBDA h1 :
        IF h1.fault THEN h1
        ELSE
          Then(Deref(h1, At(h1.pp_children[p_root], i)), LAMBDA h2 :
            IF h2.fault THEN h2
            ELSE
              Then(IF h2.i_children[At(h1.pp_children[p_root], i)] > -1
                   THEN NodeDelete(h2, At(h1.pp_children[p_root], i),
                                   b_delete_items, FALSE)
                   ELSE IF b_delete_items
                   THEN playlist_DeleteFromItemId(
                            h2, At(h1.pp_children[p_root], i))
                   ELSE h2, LAMBDA h3 :
                   DeleteLoopNoForce(h3, p_root, b_delete_items, b_force,
                                     i - 1))))

\* The loop of playlist_NodeDelete at index i, counting down: a child with a
\* children slot is deleted recursively with the same force, a leaf goes
\* through the item registry's delete when b_delete_items is set.
DeleteLoop(h, p_root, b_delete_items, b_force, i) ==
    IF h.fault \/ i < 0 THEN h
    ELSE
      Then(ReadChild(h, p_root, i), LAMBDA h1 :
        IF h1.fault THEN h1
        ELSE
          Then(Deref(h1, At(h1.pp_children[p_root], i)), LAMBDA h2 :
            IF h2.fault THEN h2
            ELSE
              Then(IF h2.i_children[At(h1.pp_children[p_root], i)] > -1
                   THEN NodeDelete(h2, At(h1.pp_children[p_root], i),
                                   b_delete_items, b_force)
                   ELSE IF b_delete_items
                   THEN playlist_DeleteFromItemId(
                            h2, At(h1.pp_children[p_root], i))
                   ELSE h2, LAMBDA h3 :
                   DeleteLoop(h3, p_root, b_delete_items, b_force, i - 1))))

\* playlist_NodeDelete: VLC_EGENERIC for a leaf; otherwise the children
\* loop and then the node itself.
NodeDelete(h, p_root, b_delete_items, b_force) ==
    Then(Deref(h, p_root), LAMBDA h0 :
        IF h0.fault THEN h0
        ELSE IF h0.i_children[p_root] = -1
        THEN [h0 EXCEPT !.ret = "VLC_EGENERIC"]
        ELSE Then(DeleteLoop(h0, p_root, b_delete_items, b_force,
                             h0.i_children[p_root] - 1),
                  LAMBDA h1 : DeleteNode(h1, p_root, b_force)))

\* The loop of playlist_NodeEmpty deleting the sub-containers with force.
RECURSIVE EmptyLoopForced(_, _, _, _)
EmptyLoopForced(h, p_root, b_delete_items, i) ==
    IF h.fault \/ i < 0 THEN h
    ELSE
      Then(ReadChild(h, p_root, i), LAMBDA h1 :
        IF h1.fault THEN h1
        ELSE
          Then(Deref(h1, At(h1.pp_children[p_root], i)), LAMBDA h2 :
            IF h2.fault THEN h2
            ELSE
              Then(IF h2.i_children[At(h1.pp_children[p_root], i)] > -1
                   THEN NodeDelete(h2, At(h1.pp_children[p_root], i),
                                   b_delete_items, TRUE)
                   ELSE IF b_delete_items
                   THEN playlist_DeleteFromItemId(
                            h2, At(h1.pp_children[p_root], i))
                   ELSE h2, LAMBDA h3 :
                   EmptyLoopForced(h3, p_root, b_delete_items, i - 1))))

\* The loop of playlist_NodeEmpty at index i, counting down: as in
\* NodeDelete, but the sub-containers are deleted without force.
RECURSIVE EmptyLoop(_, _, _, _)
EmptyLoop(h, p_root, b_delete_items, i) ==
    IF h.fault \/ i < 0 THEN h
    ELSE
      Then(ReadChild(h, p_root, i), LAMBDA h1 :
        IF h1.fault THEN h1
        ELSE
          Then(Deref(h1, At(h1.pp_children[p_root], i)), LAMBDA h2 :
            IF h2.fault THEN h2
            ELSE
              Then(IF h2.i_children[At(h1.pp_children[p_root], i)] > -1
                   THEN NodeDelete(h2, At(h1.pp_children[p_root], i),
                                   b_delete_items, FALSE)
                   ELSE IF b_delete_items
                   THEN playlist_DeleteFromItemId(
                            h2, At(h1.pp_children[p_root], i))
                   ELSE h2, LAMBDA h3 :
                   EmptyLoop(h3, p_root, b_delete_items, i - 1))))

\* playlist_NodeEmpty: VLC_EGENERIC for a leaf, otherwise the children loop
\* and VLC_SUCCESS.
NodeEmpty(h, p_root, b_delete_items) ==
    Then(Deref(h, p_root), LAMBDA h0 :
        IF h0.fault THEN h0
        ELSE IF h0.i_children[p_root] = -1
        THEN [h0 EXCEPT !.ret = "VLC_EGENERIC"]
        ELSE Then(EmptyLoop(h0, p_root, b_delete_items,
                            h0.i_children[p_root] - 1),
                  LAMBDA h1 :
                      IF h1.fault THEN h1
                      ELSE [h1 EXCEPT !.ret = "VLC_SUCCESS"]))

\* ------------------------------------------------------------- state
Allocated == 1..i_last_id

Live == Allocated \ freed

Containers == {n \in Live : i_children[n] # -1}

Leaves == {n \in Live : i_children[n] = -1}

\* The entries of n's children array.
Children(n) == {pp_children[n][k] : k \in 1..Len(pp_children[n])}

\* The nodes reachable from the nodes of S through children arrays.
RECURSIVE Reach(_)
Reach(S) ==
    LET T == S \cup UNION {Children(n) : n \in S}
    IN IF T = S THEN S ELSE Reach(T)

\* The nodes below n.
Below(n) == Reach(Children(n))

\* The first index (0-based) of x in arr, or -1.
IndexOf(arr, x) ==
    IF \E k \in 1..Len(arr) : arr[k] = x
    THEN (CHOOSE k \in 1..Len(arr) :
              arr[k] = x /\ \A j \in 1..(k - 1) : arr[j] # x) - 1
    ELSE -1

Count(arr, x) == Cardinality({k \in 1..Len(arr) : arr[k] = x})

\* n is an entry of the children array of some live container.
Attached(n) == \E c \in Containers : Count(pp_children[c], n) > 0

\* The record of a call.  occ and idx describe the state the call started
\* in: how often item occurred in parent's children, and its first index
\* there; sub is the set of nodes that were below item.  A walk records its
\* root, its cursor (item), its filters and what it returned: a node, or a
\* sequence of nodes and its length.
NoCall ==
    [op |-> "none", item |-> NULL, parent |-> NULL, pos |-> 0,
     del |-> FALSE, force |-> FALSE, ret |-> "none",
     occ |-> 0, idx |-> -1, sub |-> {},
     root |-> NULL, ena |-> FALSE, unplayed |-> FALSE,
     node |-> NULL, items |-> <<>>, count |-> 0]

Occ(p_item, p_par) ==
    IF p_par = NULL THEN 0 ELSE Count(pp_children[p_par], p_item)

Idx(p_item, p_par) ==
    IF p_par = NULL THEN -1 ELSE IndexOf(pp_children[p_par], p_item)

\* The state after a call: the heap it returns.  What lies in an array past
\* its count is outside the allocation and is not kept.
Commit(h, c) ==
    /\ i_children' = h.i_children
    /\ pp_children' =
           [n \in Nodes |->
               IF n \in h.freed \/ h.i_children[n] < 0 THEN h.pp_children[n]
               ELSE SubSeq(h.pp_children[n], 1, h.i_children[n])]
    /\ p_parent' = h.p_parent
    /\ i_flags' = h.i_flags
    /\ all_items' = h.all_items
    /\ i_last_id' = h.i_last_id
    /\ freed' = h.freed
    /\ fault' = h.fault
    /\ events' = h.events
    /\ call' = [c EXCEPT !.ret = IF h.fault THEN "fault" ELSE c.ret]
    /\ n_calls' = n_calls + 1
    /\ reinserted' =
           (reinserted \/ (c.op \in {"Insert", "Append"} /\ Attached(c.item)))
    /\ p_input' = h.p_input
    /\ UNCHANGED <<i_nb_played, b_prefers_tree, playlist>>

\* ------------------------------------------------------------- actions
\* A call can be made: the process runs and the run is not over.
CanCall == ~fault /\ n_calls < MaxCalls

\* A playlist with one tree: node 1 is its root, there is no second tree
\* and no grouping setting is on.
OneTree ==
    [p_root_category |-> 1, p_root_onelevel |-> NULL,
     b_always_tree |-> FALSE, b_never_tree |-> FALSE]

\* The playlist after its construction: one root container, created
\* without a parent and registered.
Init ==
    /\ i_children = [n \in Nodes |-> IF n = 1 THEN 0 ELSE -1]
    /\ pp_children = [n \in Nodes |-> <<>>]
    /\ p_parent = [n \in Nodes |-> NULL]
    /\ i_flags = [n \in Nodes |-> {}]
    /\ i_nb_played = [n \in Nodes |-> 0]
    /\ all_items = <<1>>
    /\ i_last_id = 1
    /\ freed = {}
    /\ fault = FALSE
    /\ events = <<>>
    /\ call = NoCall
    /\ n_calls = 0
    /\ reinserted = FALSE
    /\ p_input = [n \in Nodes |-> IF n = 1 THEN 1 ELSE NULL]
    /\ b_prefers_tree = [n \in Nodes |-> FALSE]
    /\ playlist = OneTree

\* playlist_NodeCreate( p_playlist, name, p_parent, flags, NULL )
Create(p_par) ==
    /\ CanCall
    /\ i_last_id < MaxNodes
    /\ p_par # NULL => i_children[p_par] < MaxChildren
    /\ \E h0 \in {Heap(0)} : \E h \in {NodeCreate(h0, p_par, NULL)} :
          Commit(h, [NoCall EXCEPT !.op = "Create", !.item = h.i_last_id,
                                   !.parent = p_par, !.ret = "node"])

\* A leaf is added below a container.
AddInput(p_par) ==
    /\ CanCall
    /\ i_last_id < MaxNodes
    /\ i_children[p_par] < MaxChildren
    /\ \E h0 \in {Heap(0)} : \E h \in {playlist_NodeAddInput(h0, p_par)} :
          Commit(h, [NoCall EXCEPT !.op = "AddInput", !.item = h.i_last_id,
                                   !.parent = p_par, !.ret = "node"])

\* playlist_NodeInsert( p_playlist, p_item, p_parent, i_position ).  The
\* callers keep the tree acyclic; nothing else is asked of p_item, which may
\* already be a child of some container.
Insert(p_item, p_par, i_position) ==
    /\ CanCall
    /\ i_children[p_par] < MaxChildren
    /\ p_par \notin Reach({p_item})
    /\ \E h0 \in {Heap(0)} :
       \E h \in {NodeInsert(h0, p_item, p_par, i_position)} :
          Commit(h,
              [NoCall EXCEPT !.op = "Insert", !.item = p_item,
                             !.parent = p_par, !.pos = i_position,
                             !.occ = Occ(p_item, p_par),
                             !.ret = "VLC_SUCCESS"])

\* playlist_NodeAppend( p_playlist, p_item, p_parent )
AppendItem(p_item, p_par) ==
    /\ CanCall
    /\ i_children[p_par] < MaxChildren
    /\ p_par \notin Reach({p_item})
    /\ \E h0 \in {Heap(0)} : \E h \in {NodeAppend(h0, p_item, p_par)} :
          Commit(h,
              [NoCall EXCEPT !.op = "Append", !.item = p_item,
                             !.parent = p_par, !.pos = -1,
                             !.occ = Occ(p_item, p_par),
                             !.ret = "VLC_SUCCESS"])

\* playlist_NodeRemoveItem( p_playlist, p_item, p_parent )
RemoveItem(p_item, p_par) ==
    /\ CanCall
    /\ \E h0 \in {Heap(0)} : \E h \in {NodeRemoveItem(h0, p_item, p_par)} :
          Commit(h,
              [NoCall EXCEPT !.op = "RemoveItem", !.item = p_item,
                             !.parent = p_par, !.occ = Occ(p_item, p_par),
                             !.idx = Idx(p_item, p_par),
                             !.ret = "VLC_SUCCESS"])

\* playlist_NodeEmpty( p_playlist, p_root, b_delete_items )
Empty(p_root, b_delete_items, ub) ==
    /\ CanCall
    /\ \E h0 \in {Heap(ub)} :
       \E h \in {NodeEmpty(h0, p_root, b_delete_items)} :
          Commit(h, [NoCall EXCEPT !.op = "Empty", !.item = p_root,
                                   !.parent = p_parent[p_root],
                                   !.idx = Idx(p_root, p_parent[p_root]),
                                   !.sub = Below(p_root),
                                   !.del = b_delete_items, !.ret = h.ret])

\* playlist_NodeDelete( p_playlist, p_root, b_delete_items, b_force )
Delete(p_root, b_delete_items, b_force, ub) ==
    /\ CanCall
    /\ \E h0 \in {Heap(ub)} :
       \E h \in {NodeDelete(h0, p_root, b_delete_items, b_force)} :
          Commit(h, [NoCall EXCEPT !.op = "Delete", !.item = p_root,
                                   !.parent = p_parent[p_root],
                                   !.idx = Idx(p_root, p_parent[p_root]),
                                   !.sub = Below(p_root),
                                   !.del = b_delete_items,
                                   !.force = b_force, !.ret = h.ret])

\* p_node->i_flags |= PLAYLIST_RO_FLAG, as the creator of a node does.
SetReadOnly(p_node) ==
    /\ CanCall
    /\ "RO" \notin i_flags[p_node]
    /\ i_flags' = [i_flags EXCEPT ![p_node] = @ \cup {"RO"}]
    /\ call' = [NoCall EXCEPT !.op = "SetReadOnly", !.item = p_node]
    /\ events' = <<>>
    /\ n_calls' = n_calls + 1
    /\ UNCHANGED <<i_children, pp_children, p_parent, i_nb_played, all_items,
                   i_last_id, freed, fault, reinserted, p_input,
                   b_prefers_tree, playlist>>

Next ==
    \/ \E p \in Containers \cup {NULL} : Create(p)
    \/ \E p \in Containers : AddInput(p)
    \/ \E n \in Live, p \in Containers, pos \in 0..MaxChildren :
           pos <= i_children[p] /\ Insert(n, p, pos)
    \/ \E n \in Live, p \in Containers : AppendItem(n, p)
    \/ \E n \in Live, p \in Live : RemoveItem(n, p)
    \/ \E n \in Live, d \in BOOLEAN, ub \in {0, MaxStale} : Empty(n, d, ub)
    \/ \E n \in Live, d \in BOOLEAN, f \in BOOLEAN, ub \in {0, MaxStale} :
           Delete(n, d, f, ub)
    \/ \E n \in Containers : SetReadOnly(n)

Spec == Init /\ [][Next]_vars

\* ------------------------------------------------------------- trees
\* A tree as the creation calls build it: the root container is node 1 and
\* every further node takes the next id and becomes a child of a container
\* made before it.
RootOnly ==
    [i_children |-> [n \in Nodes |-> IF n = 1 THEN 0 ELSE -1],
     pp_children |-> [n \in Nodes |-> <<>>],
     p_parent |-> [n \in Nodes |-> NULL],
     i_last_id |-> 1]

\* The tree t with one more node, a container or a leaf, inserted below
\* p_par at i_position.
Grow(t, p_par, i_position, b_container) ==
    [t EXCEPT
        !.i_last_id = t.i_last_id + 1,
        !.i_children[t.i_last_id + 1] = IF b_container THEN 0 ELSE -1,
        !.p_parent[t.i_last_id + 1] = p_par,
        !.pp_children[p_par] =
            INSERT_ELEM(@, t.i_children[p_par], i_position, t.i_last_id + 1),
        !.i_children[p_par] = @ + 1]

\* The positions a new child of p_par can take: every one, or the end only.
Positions(t, p_par, b_any) ==
    IF b_any THEN 0..t.i_children[p_par] ELSE {t.i_children[p_par]}

\* The trees of at most k nodes.
RECURSIVE Trees(_, _)
Trees(k, b_any) ==
    IF k <= 1 THEN {RootOnly}
    ELSE UNION {
           {t} \cup
           IF t.i_last_id # k - 1 THEN {}
           ELSE UNION {
                  {Grow(t, p, pos, c) :
                       pos \in Positions(t, p, b_any), c \in BOOLEAN} :
                  p \in {n \in 1..t.i_last_id : t.i_children[n] >= 0}} :
           t \in Trees(k - 1, b_any)}

TreeContainers(t) == {n \in 1..t.i_last_id : t.i_children[n] >= 0}

TreeLeaves(t) == {n \in 1..t.i_last_id : t.i_children[n] = -1}

\* ------------------------------------------------------------- deletion
\* One call of playlist_NodeDelete or playlist_NodeEmpty on a tree in
\* which every node is registered and any set of containers is read-only.
InitDel ==
    \E t \in Trees(DelNodes, TRUE) : \E ro \in SUBSET TreeContainers(t) :
        /\ i_children = t.i_children
        /\ pp_children = t.pp_children
        /\ p_parent = t.p_parent
        /\ i_flags = [n \in Nodes |-> IF n \in ro THEN {"RO"} ELSE {}]
        /\ i_nb_played = [n \in Nodes |-> 0]
        /\ all_items = [k \in 1..t.i_last_id |-> k]
        /\ i_last_id = t.i_last_id
        /\ freed = {}
        /\ fault = FALSE
        /\ events = <<>>
        /\ call = NoCall
        /\ n_calls = 0
        /\ reinserted = FALSE
        /\ p_input = [n \in Nodes |-> IF n <= t.i_last_id THEN n ELSE NULL]
        /\ b_prefers_tree = [n \in Nodes |-> FALSE]
        /\ playlist = OneTree

NextDel ==
    \/ n_calls = 0 /\
           \E n \in Live, d \in BOOLEAN, f \in BOOLEAN, ub \in {0, MaxStale} :
               Delete(n, d, f, ub)
    \/ n_calls = 0 /\
           \E n \in Live, d \in BOOLEAN, ub \in {0, MaxStale} : Empty(n, d, ub)

SpecDel == InitDel /\ [][NextDel]_vars

\* ------------------------------------------------------------- walking
\* What a walk returns when the process dies in it: abort(), a failed
\* assert, or a read through the NULL pointer.
Crash == -1

\* The index the loop "for( i = 0; i < p_node->i_children; i++ )" stops at
\* when it breaks on the first slot holding p_item: i_children (or 0 for a
\* leaf) when no slot does.
SearchUp(p_node, p_item) ==
    LET hits == {i \in 0..(i_children[p_node] - 1) :
                     At(pp_children[p_node], i) = p_item}
    IN IF hits = {}
       THEN (IF i_children[p_node] > 0 THEN i_children[p_node] ELSE 0)
       ELSE CHOOSE i \in hits : \A j \in hits : i <= j

\* The index the loop "for( i = p_node->i_children - 1; i >= 0; i-- )"
\* stops at when it breaks on the first slot holding p_item: -1 when no slot
\* does.
SearchDown(p_node, p_item) ==
    LET hits == {i \in 0..(i_children[p_node] - 1) :
                     At(pp_children[p_node], i) = p_item}
    IN IF hits = {} THEN -1
       ELSE CHOOSE i \in hits : \A j \in hits : i >= j

\* The while loop of GetNextUncle: p_par is looked up in p_grandparent; its
\* next sibling is the answer if there is one, else the walk climbs unless
\* p_grandparent is the root.  b_found is never reset.
RECURSIVE NextUncleLoop(_, _, _, _)
NextUncleLoop(p_par, p_grandparent, p_root, b_found) ==
    IF p_grandparent = NULL THEN NULL
    ELSE Then(SearchUp(p_grandparent, p_par), LAMBDA i :
         Then(b_found \/ i < i_children[p_grandparent], LAMBDA found :
           IF found /\ i + 1 < i_children[p_grandparent]
           THEN At(pp_children[p_grandparent], i + 1)
           ELSE IF p_grandparent = p_root THEN NULL
           ELSE NextUncleLoop(p_grandparent, p_parent[p_grandparent],
                              p_root, found)))

\* GetNextUncle giving up at once: no uncle is looked for.
GetNextUncleNone(p_item, p_root) == NULL

\* GetNextUncle( p_playlist, p_item, p_root )
GetNextUncle(p_item, p_root) ==
    IF p_parent[p_item] # NULL
    THEN NextUncleLoop(p_parent[p_item], p_parent[p_parent[p_item]],
                       p_root, FALSE)
    ELSE NULL

\* GetNextItem going back to the first sibling after the last one instead
\* of looking for an uncle.
GetNextItemWrap(p_root, p_item) ==
    IF p_item # NULL /\ i_children[p_item] > 0
    THEN At(pp_children[p_item], 0)
    ELSE
      Then(IF p_item # NULL THEN p_parent[p_item] ELSE p_root, LAMBDA p_par :
        IF p_par = NULL THEN Crash
        ELSE IF i_children[p_par] <= 0 THEN NULL
        ELSE IF p_item = NULL THEN At(pp_children[p_par], 0)
        ELSE
          Then(SearchUp(p_par, p_item), LAMBDA i :
            IF i >= i_children[p_par] THEN NULL
            ELSE IF i + 1 >= i_children[p_par]
            THEN At(pp_children[p_par], 0)
            ELSE At(pp_children[p_par], i + 1)))

\* GetNextItem( p_playlist, p_root, p_item ): the first child of a node
\* with children; else the next sibling, found from the parent (from the
\* root, before its first child, when p_item is NULL); else the uncle.
GetNextItem(p_root, p_item) ==
    IF p_item # NULL /\ i_children[p_item] > 0
    THEN At(pp_children[p_item], 0)
    ELSE
      Then(IF p_item # NULL THEN p_parent[p_item] ELSE p_root, LAMBDA p_par :
        IF p_par = NULL THEN Crash
        ELSE IF i_children[p_par] <= 0 THEN NULL
        ELSE IF p_item = NULL THEN At(pp_children[p_par], 0)
        ELSE
          Then(SearchUp(p_par, p_item), LAMBDA i :
            IF i >= i_children[p_par] THEN NULL
            ELSE IF i + 1 >= i_children[p_par]
            THEN (IF p_par = p_root THEN NULL
                  ELSE GetNextUncle(p_item, p_root))
            ELSE At(pp_children[p_par], i + 1)))

\* The while( 1 ) loop of GetPrevUncle: p_par is looked up in
\* p_grandparent, which is read without a test for NULL; the sibling before
\* it is the answer if "b_found && i - 1 > 0", else the walk climbs unless
\* p_grandparent is the root.
RECURSIVE PrevUncleLoop(_, _, _, _)
PrevUncleLoop(p_par, p_grandparent, p_root, b_found) ==
    IF p_grandparent = NULL THEN Crash
    ELSE Then(SearchDown(p_grandparent, p_par), LAMBDA i :
         Then(b_found \/ i >= 0, LAMBDA found :
           IF found /\ i - 1 > 0
           THEN At(pp_children[p_grandparent], i - 1)
           ELSE IF p_grandparent = p_root THEN NULL
           ELSE PrevUncleLoop(p_grandparent, p_parent[p_grandparent],
                              p_root, found)))

\* GetPrevUncle( p_playlist, p_item, p_root )
GetPrevUncle(p_item, p_root) ==
    IF p_parent[p_item] # NULL
    THEN PrevUncleLoop(p_parent[p_item], p_parent[p_parent[p_item]],
                       p_root, FALSE)
    ELSE NULL

\* GetPrevItem( p_playlist, p_root, p_item ): the last child of a node with
\* children; abort() for the NULL cursor; else the sibling before p_item;
\* else the uncle.
GetPrevItem(p_root, p_item) ==
    IF p_item # NULL /\ i_children[p_item] > 0
    THEN At(pp_children[p_item], i_children[p_item] - 1)
    ELSE IF p_item = NULL THEN Crash
    ELSE
      Then(p_parent[p_item], LAMBDA p_par :
        IF p_par = NULL THEN Crash
        ELSE
          Then(SearchDown(p_par, p_item), LAMBDA i :
            IF i < 0 THEN NULL
            ELSE IF i - 1 < 0
            THEN (IF p_par = p_root THEN NULL
                  ELSE GetPrevUncle(p_item, p_root))
            ELSE At(pp_children[p_par], i - 1)))

\* The filters of playlist_GetNextLeaf and playlist_GetPrevLeaf on a leaf.
LeafPasses(p_node, b_ena, b_unplayed) ==
    /\ ~(b_ena /\ "DBL" \in i_flags[p_node])
    /\ ~(b_unplayed /\ i_nb_played[p_node] # 0)

\* playlist_GetNextLeaf returning whatever GetNextItem returns first.
NextLeafLoopFirst(p_root, p_next, b_ena, b_unplayed) ==
    GetNextItem(p_root, p_next)

\* The while( 1 ) loop of playlist_GetNextLeaf.
RECURSIVE NextLeafLoop(_, _, _, _)
NextLeafLoop(p_root, p_next, b_ena, b_unplayed) ==
    Then(GetNextItem(p_root, p_next), LAMBDA p_n :
        IF p_n = Crash THEN Crash
        ELSE IF p_n = NULL \/ p_n = p_root THEN p_n
        ELSE IF i_children[p_n] = -1 /\ LeafPasses(p_n, b_ena, b_unplayed)
        THEN p_n
        ELSE NextLeafLoop(p_root, p_n, b_ena, b_unplayed))

\* playlist_GetNextLeaf( p_playlist, p_root, p_item, b_ena, b_unplayed )
playlist_GetNextLeaf(p_root, p_item, b_ena, b_unplayed) ==
    IF p_root = NULL \/ i_children[p_root] = -1 THEN Crash
    ELSE NextLeafLoop(p_root, p_item, b_ena, b_unplayed)

\* The while( 1 ) loop of playlist_GetPrevLeaf.
RECURSIVE PrevLeafLoop(_, _, _, _)
PrevLeafLoop(p_root, p_prev, b_ena, b_unplayed) ==
    Then(GetPrevItem(p_root, p_prev), LAMBDA p_n :
        IF p_n = Crash THEN Crash
        ELSE IF p_n = NULL \/ p_n = p_root THEN p_n
        ELSE IF i_children[p_n] = -1 /\ LeafPasses(p_n, b_ena, b_unplayed)
        THEN p_n
        ELSE PrevLeafLoop(p_root, p_n, b_ena, b_unplayed))

\* playlist_GetPrevLeaf( p_playlist, p_root, p_item, b_ena, b_unplayed )
playlist_GetPrevLeaf(p_root, p_item, b_ena, b_unplayed) ==
    IF p_root = NULL \/ i_children[p_root] = -1 THEN Crash
    ELSE PrevLeafLoop(p_root, p_item, b_ena, b_unplayed)

\* playlist_GetAllEnabledChildren collecting the leaves whatever their
\* flags are.
RECURSIVE AllChildrenLoop(_, _, _, _)
AllChildrenLoop(p_node, p_next, items, i_count) ==
    Then(playlist_GetNextLeaf(p_node, p_next, FALSE, FALSE), LAMBDA p_n :
        IF p_n = Crash THEN [items |-> items, i_count |-> Crash]
        ELSE IF p_n # NULL
        THEN AllChildrenLoop(p_node, p_n,
                             INSERT_ELEM(items, i_count, i_count, p_n),
                             i_count + 1)
        ELSE [items |-> items, i_count |-> i_count])

\* The while( 1 ) loop of playlist_GetAllEnabledChildren: the next enabled
\* leaf is inserted at the end of the items, which counts i_count up, until
\* there is none.
RECURSIVE EnabledChildrenLoop(_, _, _, _)
EnabledChildrenLoop(p_node, p_next, items, i_count) ==
    Then(playlist_GetNextLeaf(p_node, p_next, TRUE, FALSE), LAMBDA p_n :
        IF p_n = Crash THEN [items |-> items, i_count |-> Crash]
        ELSE IF p_n # NULL
        THEN EnabledChildrenLoop(p_node, p_n,
                                 INSERT_ELEM(items, i_count, i_count, p_n),
                                 i_count + 1)
        ELSE [items |-> items, i_count |-> i_count])

\* playlist_GetAllEnabledChildren( p_playlist, p_node, ppp_items )
playlist_GetAllEnabledChildren(p_node) ==
    EnabledChildrenLoop(p_node, NULL, <<>>, 0)

RECURSIVE playlist_NodeChildrenCount(_)
RECURSIVE playlist_GetLastLeaf(_)

\* The loop of playlist_NodeChildrenCount going on past a leaf child
\* instead of leaving the loop.
RECURSIVE ChildrenCountLoopPastLeaf(_, _, _)
ChildrenCountLoopPastLeaf(p_node, i, i_nb) ==
    IF i >= i_children[p_node] THEN i_nb
    ELSE IF i_children[At(pp_children[p_node], i)] = -1
    THEN ChildrenCountLoopPastLeaf(p_node, i + 1, i_nb)
    ELSE Then(playlist_NodeChildrenCount(At(pp_children[p_node], i)),
              LAMBDA c : ChildrenCountLoopPastLeaf(p_node, i + 1, i_nb + c))

\* The loop of playlist_NodeChildrenCount from child i on: it breaks at the
\* first child that is a leaf and adds the count of every child before.
RECURSIVE ChildrenCountLoop(_, _, _)
ChildrenCountLoop(p_node, i, i_nb) ==
    IF i >= i_children[p_node] THEN i_nb
    ELSE IF i_children[At(pp_children[p_node], i)] = -1 THEN i_nb
    ELSE Then(playlist_NodeChildrenCount(At(pp_children[p_node], i)),
              LAMBDA c : ChildrenCountLoop(p_node, i + 1, i_nb + c))

\* playlist_NodeChildrenCount( p_playlist, p_node ): 0 for a leaf, else
\* i_children plus what the loop adds.
playlist_NodeChildrenCount(p_node) ==
    IF i_children[p_node] = -1 THEN 0
    ELSE ChildrenCountLoop(p_node, 0, i_children[p_node])

\* The loop of playlist_GetLastLeaf leaving with NULL at any empty
\* container, not only at the one at index 0.
RECURSIVE LastLeafLoopStopAtEmpty(_, _)
LastLeafLoopStopAtEmpty(p_root, i) ==
    IF i < 0 THEN NULL
    ELSE IF i_children[At(pp_children[p_root], i)] = -1
    THEN At(pp_children[p_root], i)
    ELSE IF i_children[At(pp_children[p_root], i)] > 0
    THEN Then(playlist_GetLastLeaf(At(pp_children[p_root], i)),
              LAMBDA p_item :
                  IF p_item # NULL THEN p_item
                  ELSE LastLeafLoopStopAtEmpty(p_root, i - 1))
    ELSE NULL

\* The loop of playlist_GetLastLeaf at child i, counting down: a leaf is
\* the answer; a container with children is searched and is the answer's
\* place if it holds a leaf; an empty container ends the search at index 0.
RECURSIVE LastLeafLoop(_, _)
LastLeafLoop(p_root, i) ==
    IF i < 0 THEN NULL
    ELSE IF i_children[At(pp_children[p_root], i)] = -1
    THEN At(pp_children[p_root], i)
    ELSE IF i_children[At(pp_children[p_root], i)] > 0
    THEN Then(playlist_GetLastLeaf(At(pp_children[p_root], i)),
              LAMBDA p_item :
                  IF p_item # NULL THEN p_item
                  ELSE LastLeafLoop(p_root, i - 1))
    ELSE IF i = 0 THEN NULL
    ELSE LastLeafLoop(p_root, i - 1)

\* playlist_GetLastLeaf( p_playlist, p_root )
playlist_GetLastLeaf(p_root) == LastLeafLoop(p_root, i_children[p_root] - 1)

\* A walk was called: nothing but the record of the call changes, unless
\* the process died in it.
Walked(c, b_crash) ==
    /\ call' = [c EXCEPT !.ret = IF b_crash THEN "fault" ELSE "node"]
    /\ fault' = b_crash
    /\ events' = <<>>
    /\ n_calls' = n_calls + 1
    /\ UNCHANGED <<i_children, pp_children, p_parent, i_flags, i_nb_played,
                   all_items, i_last_id, freed, reinserted, p_input,
                   b_prefers_tree, playlist>>

\* GetNextItem( p_playlist, p_root, p_item )
NextItem(p_root, p_item) ==
    /\ CanCall
    /\ \E r \in {GetNextItem(p_root, p_item)} :
          Walked([NoCall EXCEPT !.op = "NextItem", !.root = p_root,
                                !.item = p_item, !.node = r], r = Crash)

\* playlist_GetNextLeaf( p_playlist, p_root, p_item, b_ena, b_unplayed )
NextLeaf(p_root, p_item, b_ena, b_unplayed) ==
    /\ CanCall
    /\ \E r \in {playlist_GetNextLeaf(p_root, p_item, b_ena, b_unplayed)} :
          Walked([NoCall EXCEPT !.op = "NextLeaf", !.root = p_root,
                                !.item = p_item, !.ena = b_ena,
                                !.unplayed = b_unplayed, !.node = r],
                 r = Crash)

\* playlist_GetPrevLeaf( p_playlist, p_root, p_item, b_ena, b_unplayed )
PrevLeaf(p_root, p_item, b_ena, b_unplayed) ==
    /\ CanCall
    /\ \E r \in {playlist_GetPrevLeaf(p_root, p_item, b_ena, b_unplayed)} :
          Walked([NoCall EXCEPT !.op = "PrevLeaf", !.root = p_root,
                                !.item = p_item, !.ena = b_ena,
                                !.unplayed = b_unplayed, !.node = r],
                 r = Crash)

\* playlist_GetAllEnabledChildren( p_playlist, p_node, &pp_items )
AllEnabledChildren(p_node) ==
    /\ CanCall
    /\ \E r \in {playlist_GetAllEnabledChildren(p_node)} :
          Walked([NoCall EXCEPT !.op = "AllEnabledChildren",
                                !.root = p_node, !.items = r.items,
                                !.count = r.i_count], r.i_count = Crash)

\* playlist_NodeChildrenCount( p_playlist, p_node )
ChildrenCount(p_node) ==
    /\ CanCall
    /\ \E r \in {playlist_NodeChildrenCount(p_node)} :
          Walked([NoCall EXCEPT !.op = "ChildrenCount", !.item = p_node,
                                !.count = r], FALSE)

\* playlist_GetLastLeaf( p_playlist, p_root )
LastLeaf(p_root) ==
    /\ CanCall
    /\ \E r \in {playlist_GetLastLeaf(p_root)} :
          Walked([NoCall EXCEPT !.op = "LastLeaf", !.root = p_root,
                                !.node = r], FALSE)

\* One walk over a tree whose children arrays are in the order of creation
\* (the walks compare node pointers for identity only), in which any leaves
\* carry the duplicate flag and any leaves have been played.
InitTrav ==
    \E t \in Trees(TravNodes, FALSE) :
    \E dbl \in SUBSET TreeLeaves(t) : \E played \in SUBSET TreeLeaves(t) :
        /\ Cardinality(dbl) + Cardinality(played) <= MaxMarked
        /\ i_children = t.i_children
        /\ pp_children = t.pp_children
        /\ p_parent = t.p_parent
        /\ i_flags = [n \in Nodes |-> IF n \in dbl THEN {"DBL"} ELSE {}]
        /\ i_nb_played = [n \in Nodes |-> IF n \in played THEN 1 ELSE 0]
        /\ all_items = [k \in 1..t.i_last_id |-> k]
        /\ i_last_id = t.i_last_id
        /\ freed = {}
        /\ fault = FALSE
        /\ events = <<>>
        /\ call = NoCall
        /\ n_calls = 0
        /\ reinserted = FALSE
        /\ p_input = [n \in Nodes |-> IF n <= t.i_last_id THEN n ELSE NULL]
        /\ b_prefers_tree = [n \in Nodes |-> FALSE]
        /\ playlist = OneTree

\* The cursors a walk below p_root is called with: none, a node below
\* p_root, or p_root itself.
Cursors(p_root) == {NULL, p_root} \cup Below(p_root)

NextTrav ==
    \/ n_calls = 0 /\ \E r \in Live : \E n \in Cursors(r) : NextItem(r, n)
    \/ n_calls = 0 /\ \E r \in Live :
           \E n \in Cursors(r), e \in BOOLEAN, u \in BOOLEAN :
               NextLeaf(r, n, e, u)
    \/ n_calls = 0 /\ \E r \in Live :
           \E n \in Cursors(r), e \in BOOLEAN, u \in BOOLEAN :
               PrevLeaf(r, n, e, u)
    \/ n_calls = 0 /\ \E r \in Live : AllEnabledChildren(r)
    \/ n_calls = 0 /\ \E n \in Live : ChildrenCount(n)
    \/ n_calls = 0 /\ \E r \in Live : LastLeaf(r)

SpecTrav == InitTrav /\ [][NextTrav]_vars

\* ------------------------------------------------------------- iterating
\* The leaf walks one pass of their while( 1 ) loop at a time.  The call
\* record holds the call in progress: its root and filters, the cursor it
\* was given (item), the loop variable p_next / p_prev (node), the values
\* the loop variable has taken so far (items), whether it is still in the
\* loop (ret = "running"), has returned node (ret = "node") or the process
\* died in it (ret = "fault"), and the leaves the earlier calls of the
\* iteration returned (sub).
InitIter ==
    \E t \in Trees(IterNodes, FALSE) :
    \E dbl \in SUBSET TreeLeaves(t) : \E played \in SUBSET TreeLeaves(t) :
        /\ Cardinality(dbl) + Cardinality(played) <= IterMarked
        /\ i_children = t.i_children
        /\ pp_children = t.pp_children
        /\ p_parent = t.p_parent
        /\ i_flags = [n \in Nodes |-> IF n \in dbl THEN {"DBL"} ELSE {}]
        /\ i_nb_played = [n \in Nodes |-> IF n \in played THEN 1 ELSE 0]
        /\ all_items = [k \in 1..t.i_last_id |-> k]
        /\ i_last_id = t.i_last_id
        /\ freed = {}
        /\ fault = FALSE
        /\ events = <<>>
        /\ call = NoCall
        /\ n_calls = 0
        /\ reinserted = FALSE
        /\ p_input = [n \in Nodes |-> IF n <= t.i_last_id THEN n ELSE NULL]
        /\ b_prefers_tree = [n \in Nodes |-> FALSE]
        /\ playlist = OneTree

\* playlist_GetNextLeaf or playlist_GetPrevLeaf is entered: the assert on
\* the root has passed and the loop variable is set to the cursor.
LeafCall(op, p_root, p_item, b_ena, b_unplayed) ==
    /\ n_calls = 0
    /\ i_children[p_root] # -1
    /\ call' = [NoCall EXCEPT !.op = op, !.root = p_root, !.item = p_item,
                              !.ena = b_ena, !.unplayed = b_unplayed,
                              !.node = p_item, !.ret = "running"]
    /\ n_calls' = 1
    /\ UNCHANGED <<i_children, pp_children, p_parent, i_flags, i_nb_played,
                   all_items, i_last_id, freed, fault, events, reinserted,
                   p_input, b_prefers_tree, playlist>>

\* One pass of the while( 1 ) loop: the loop variable moves to the next
\* (previous) item; the loop is left on NULL, on the root, and on a leaf
\* that passes the filters.
LeafStep ==
    /\ call.ret = "running"
    /\ \E p_n \in {IF call.op = "NextLeaf"
                   THEN GetNextItem(call.root, call.node)
                   ELSE GetPrevItem(call.root, call.node)} :
          /\ call' =
                 IF p_n = Crash THEN [call EXCEPT !.ret = "fault"]
                 ELSE [call EXCEPT
                          !.node = p_n,
                          !.items = Append(@, p_n),
                          !.ret =
                              IF \/ p_n = NULL
                                 \/ p_n = call.root
                                 \/ /\ i_children[p_n] = -1
                                    /\ LeafPasses(p_n, call.ena,
                                                  call.unplayed)
                              THEN "node" ELSE "running"]
          /\ fault' = (p_n = Crash)
    /\ UNCHANGED <<i_children, pp_children, p_parent, i_flags, i_nb_played,
                   all_items, i_last_id, freed, events, n_calls, reinserted,
                   p_input, b_prefers_tree, playlist>>

\* The caller's loop, as in playlist_GetAllEnabledChildren: the leaf that
\* playlist_GetNextLeaf returned is the cursor of the next call.
LeafAgain ==
    /\ call.op = "NextLeaf"
    /\ call.ret = "node"
    /\ call.node # NULL
    /\ call' = [call EXCEPT !.item = call.node, !.items = <<>>,
                            !.sub = @ \cup {call.node}, !.ret = "running"]
    /\ n_calls' = n_calls + 1
    /\ UNCHANGED <<i_children, pp_children, p_parent, i_flags, i_nb_played,
                   all_items, i_last_id, freed, fault, events, reinserted,
                   p_input, b_prefers_tree, playlist>>

NextIter ==
    \/ \E r \in Containers :
           \E n \in Cursors(r), e \in BOOLEAN, u \in BOOLEAN :
               LeafCall("NextLeaf", r, n, e, u)
    \/ \E r \in Containers :
           \E n \in Cursors(r), e \in BOOLEAN, u \in BOOLEAN :
               LeafCall("PrevLeaf", r, n, e, u)
    \/ LeafStep
    \/ LeafAgain

\* The calls are synchronous: a call that is in its loop makes its next
\* pass, and the caller that got a leaf calls again.
SpecIter ==
    InitIter /\ [][NextIter]_vars /\ WF_vars(LeafStep) /\ WF_vars(LeafAgain)

\* ------------------------------------------------------------- pairing
\* p_node->i_flags |= flag
SetFlag(h, p_node, flag) == [h EXCEPT !.i_flags[p_node] = @ \cup {flag}]

\* playlist_NodesPairCreate making a descriptor of its own for the second
\* node.
NodesPairCreateOwnInput(h, b_for_sd) ==
    Then(NodeCreate(h, playlist.p_root_category, NULL), LAMBDA h1 :
    Then(NodeCreate(h1, playlist.p_root_onelevel, NULL), LAMBDA h2 :
        IF b_for_sd
        THEN SetFlag(SetFlag(SetFlag(SetFlag(h2, h1.i_last_id, "RO"),
                                     h1.i_last_id, "SKIP"),
                             h2.i_last_id, "RO"),
                     h2.i_last_id, "SKIP")
        ELSE h2))

\* playlist_NodesPairCreate: a node below the category root, a node for the
\* same descriptor below the onelevel root (*pp_node_cat is h1.i_last_id,
\* *pp_node_one is h2.i_last_id), both read-only and skipped when
\* b_for_sd.
NodesPairCreate(h, b_for_sd) ==
    Then(NodeCreate(h, playlist.p_root_category, NULL), LAMBDA h1 :
    Then(NodeCreate(h1, playlist.p_root_onelevel,
                    h1.p_input[h1.i_last_id]), LAMBDA h2 :
        IF b_for_sd
        THEN SetFlag(SetFlag(SetFlag(SetFlag(h2, h1.i_last_id, "RO"),
                                     h1.i_last_id, "SKIP"),
                             h2.i_last_id, "RO"),
                     h2.i_last_id, "SKIP")
        ELSE h2))

\* The loops of playlist_GetPreferredNode: the first child of p_root whose
\* descriptor is p_node's, or NULL.
FirstWithInput(p_root, p_node) ==
    LET hits == {i \in 0..(i_children[p_root] - 1) :
                     p_input[At(pp_children[p_root], i)] = p_input[p_node]}
    IN IF hits = {} THEN NULL
       ELSE At(pp_children[p_root], CHOOSE i \in hits : \A j \in hits : i <= j)

\* playlist_GetPreferredNode with the two trees' tests exchanged.
GetPreferredNodeSwapped(p_node) ==
    IF p_parent[p_node] = playlist.p_root_onelevel
    THEN IF playlist.b_always_tree \/ b_prefers_tree[p_input[p_node]]
         THEN p_node
         ELSE FirstWithInput(playlist.p_root_category, p_node)
    ELSE IF p_parent[p_node] = playlist.p_root_category
    THEN IF playlist.b_never_tree \/ ~b_prefers_tree[p_input[p_node]]
         THEN p_node
         ELSE FirstWithInput(playlist.p_root_onelevel, p_node)
    ELSE NULL

\* playlist_GetPreferredNode( p_playlist, p_node )
playlist_GetPreferredNode(p_node) ==
    IF p_parent[p_node] = playlist.p_root_category
    THEN IF playlist.b_always_tree \/ b_prefers_tree[p_input[p_node]]
         THEN p_node
         ELSE FirstWithInput(playlist.p_root_onelevel, p_node)
    ELSE IF p_parent[p_node] = playlist.p_root_onelevel
    THEN IF playlist.b_never_tree \/ ~b_prefers_tree[p_input[p_node]]
         THEN p_node
         ELSE FirstWithInput(playlist.p_root_category, p_node)
    ELSE NULL

\* The two roots of the playlist.
Roots == {playlist.p_root_category, playlist.p_root_onelevel}

\* playlist_NodesPairCreate( p_playlist, name, &p_cat, &p_one, b_for_sd )
PairCreate(b_for_sd) ==
    /\ CanCall
    /\ i_last_id + 2 <= PairNodes
    /\ \E h0 \in {Heap(0)} : \E h \in {NodesPairCreate(h0, b_for_sd)} :
          Commit(h, [NoCall EXCEPT !.op = "PairCreate",
                                   !.item = h.i_last_id - 1,
                                   !.node = h.i_last_id,
                                   !.force = b_for_sd, !.ret = "node"])

\* playlist_NodeCreate( p_playlist, name, p_parent, 0, p_input ) with a
\* parent, for a new descriptor or for one some node has.
CreateFor(p_par, p_in) ==
    /\ CanCall
    /\ i_last_id < PairNodes
    /\ \E h0 \in {Heap(0)} : \E h \in {NodeCreate(h0, p_par, p_in)} :
          Commit(h, [NoCall EXCEPT !.op = "Create", !.item = h.i_last_id,
                                   !.parent = p_par, !.ret = "node"])

\* p_input->b_prefers_tree = VLC_TRUE, as the owner of a descriptor does.
SetPrefersTree(p_in) ==
    /\ CanCall
    /\ ~b_prefers_tree[p_in]
    /\ b_prefers_tree' = [b_prefers_tree EXCEPT ![p_in] = TRUE]
    /\ call' = [NoCall EXCEPT !.op = "SetPrefersTree", !.item = p_in]
    /\ events' = <<>>
    /\ n_calls' = n_calls + 1
    /\ UNCHANGED <<i_children, pp_children, p_parent, i_flags, i_nb_played,
                   all_items, i_last_id, freed, fault, reinserted, p_input,
                   playlist>>

\* playlist_GetPreferredNode( p_playlist, p_node )
PreferredNode(p_node) ==
    /\ CanCall
    /\ \E r \in {playlist_GetPreferredNode(p_node)} :
          Walked([NoCall EXCEPT !.op = "PreferredNode", !.item = p_node,
                                !.node = r], FALSE)

\* The playlist after its construction: the category root and the onelevel
\* root, created without a parent and registered, and the grouping setting,
\* which is "always", "never" or neither.
InitPair ==
    \E always \in BOOLEAN, never \in BOOLEAN :
        /\ ~(always /\ never)
        /\ i_children = [n \in Nodes |-> IF n <= 2 THEN 0 ELSE -1]
        /\ pp_children = [n \in Nodes |-> <<>>]
        /\ p_parent = [n \in Nodes |-> NULL]
        /\ i_flags = [n \in Nodes |-> {}]
        /\ i_nb_played = [n \in Nodes |-> 0]
        /\ all_items = <<1, 2>>
        /\ i_last_id = 2
        /\ freed = {}
        /\ fault = FALSE
        /\ events = <<>>
        /\ call = NoCall
        /\ n_calls = 0
        /\ reinserted = FALSE
        /\ p_input = [n \in Nodes |-> IF n <= 2 THEN n ELSE NULL]
        /\ b_prefers_tree = [n \in Nodes |-> FALSE]
        /\ playlist = [p_root_category |-> 1, p_root_onelevel |-> 2,
                       b_always_tree |-> always, b_never_tree |-> never]

NextPair ==
    \/ \E b \in BOOLEAN : PairCreate(b)
    \/ \E p \in Containers, n \in (Live \ Roots) \cup {NULL} :
           CreateFor(p, IF n = NULL THEN NULL ELSE p_input[n])
    \/ \E n \in Live \ Roots : SetPrefersTree(p_input[n])
    \/ \E n \in Live \ Roots : RemoveItem(n, p_parent[n])
    \/ \E n \in Live \ Roots, f \in BOOLEAN : Delete(n, TRUE, f, 0)
    \/ \E n \in Live : PreferredNode(n)

SpecPair == InitPair /\ [][NextPair]_vars

\* ------------------------------------------------------------- claims
\* arr without the first occurrence of x.
RemoveFirst(arr, x) ==
    LET i == IndexOf(arr, x)
    IN IF i = -1 THEN arr
       ELSE SubSeq(arr, 1, i) \o SubSeq(arr, i + 2, Len(arr))

Last(arr) == arr[Len(arr)]

\* C1 as stated: parent references and children sequences are mutually
\* consistent for every live node: a node that occurs in container C's
\* children has parent C, and a node whose parent is C occurs in C's
\* children.
C1_ParentChildrenConsistent ==
    \A n \in Live :
        /\ \A c \in Containers : Count(pp_children[c], n) > 0 => p_parent[n] = c
        /\ p_parent[n] # NULL =>
               /\ p_parent[n] \in Containers
               /\ Count(pp_children[p_parent[n]], n) > 0

\* C1 as amended: as long as no call inserted a node that was a child of
\* some container already, every entry of a live container's children is a
\* live node whose parent is that container.
C1_ChildrenHaveParent ==
    ~reinserted =>
        \A c \in Containers : \A n \in Children(c) :
            n \in Live /\ p_parent[n] = c

\* A detached node has been inserted again: it is the child of a container
\* it was removed from or of another one, after a removal, and other nodes
\* keep a parent they are no child of.
C1_Witness ==
    /\ ~reinserted
    /\ ~fault
    /\ call.op = "Insert"
    /\ n_calls >= 3
    /\ \E n \in Live : p_parent[n] # NULL /\ ~Attached(n)
    /\ Count(pp_children[call.parent], call.item) = 1

\* C2 as stated: after Append(n, C), n's parent is C and n occurs exactly
\* once in C's children, at the last index.
C2_AppendOnceLast ==
    call.op = "Append" =>
        /\ p_parent[call.item] = call.parent
        /\ Count(pp_children[call.parent], call.item) = 1
        /\ Last(pp_children[call.parent]) = call.item

\* C2 as amended: after Append(n, C) of a node n that did not occur in C's
\* children, n's parent is C and n occurs exactly once in C's children, at
\* the last index.
C2_AppendNewOnceLast ==
    (call.op = "Append" /\ call.occ = 0) =>
        /\ call.ret = "VLC_SUCCESS"
        /\ p_parent[call.item] = call.parent
        /\ Count(pp_children[call.parent], call.item) = 1
        /\ Last(pp_children[call.parent]) = call.item

\* A node was appended to a container that had children already.
C2_Witness ==
    /\ call.op = "Append"
    /\ call.occ = 0
    /\ Len(pp_children[call.parent]) >= 2
    /\ Last(pp_children[call.parent]) = call.item

\* C9: Empty and Delete called on a leaf return VLC_EGENERIC and change
\* nothing: no array, parent, flag or registry entry changes, nothing is
\* released and nothing is notified.
C9_LeafRootIsError ==
    [][(call'.op \in {"Empty", "Delete"} /\ i_children[call'.item] = -1) =>
           /\ call'.ret = "VLC_EGENERIC"
           /\ events' = <<>>
           /\ UNCHANGED <<i_children, pp_children, p_parent, i_flags,
                          i_nb_played, all_items, i_last_id, freed, fault>>]_vars

\* Delete was called on a leaf that is registered and is a child of a
\* container.
C9_Witness ==
    /\ call.op = "Delete"
    /\ call.ret = "VLC_EGENERIC"
    /\ i_children[call.item] = -1
    /\ Attached(call.item)
    /\ ARRAY_BSEARCH(all_items, call.item) # -1

\* C10: RemoveFromParent(item, parent) removes exactly the first occurrence
\* of item from parent's children and nothing else; a later occurrence
\* stays, and without an occurrence nothing changes.
C10_RemovesFirstOccurrenceOnly ==
    [][call'.op = "RemoveItem" =>
           /\ call'.ret = "VLC_SUCCESS"
           /\ pp_children' =
                  [pp_children EXCEPT
                      ![call'.parent] = RemoveFirst(@, call'.item)]
           /\ \A n \in Nodes : n # call'.parent => i_children'[n] = i_children[n]
           /\ UNCHANGED <<p_parent, i_flags, i_nb_played, all_items,
                          i_last_id, freed, fault>>]_vars

\* The registry holds no entry for n.
Unregistered(n) == \A k \in 1..Len(all_items') : all_items'[k] # n

\* The node n is gone after the step: released and out of the registry.
Destroyed(n) == n \in freed' /\ Unregistered(n)

\* C5: after Delete(root, deleteItems = true, force = true) on a container
\* root, the registry holds no id of root or of a node that was below root,
\* read-only or not, and root is no entry of its former parent's children.
C5_DeleteClearsRegistry ==
    [][(/\ call'.op = "Delete" /\ call'.del /\ call'.force
        /\ i_children[call'.item] >= 0) =>
           /\ call'.ret = "VLC_SUCCESS"
           /\ \A n \in {call'.item} \cup Below(call'.item) : Unregistered(n)
           /\ p_parent[call'.item] # NULL =>
                  Count(pp_children'[p_parent[call'.item]], call'.item) = 0
      ]_vars

\* A forced Delete destroyed a container that had a parent and, below it, a
\* read-only container and a leaf.
C5_Witness ==
    /\ call.op = "Delete" /\ call.del /\ call.force
    /\ call.ret = "VLC_SUCCESS"
    /\ call.parent # NULL
    /\ call.idx >= 0
    /\ \E n \in call.sub : "RO" \in i_flags[n] /\ n \in freed
    /\ \E n \in call.sub : i_children[n] = -1 /\ n \in freed

\* C8: Delete(root, deleteItems, force = false) on a read-only container
\* returns success and leaves root alone: root stays registered, keeps its
\* place in its parent's children, and is not announced as deleted; the
\* containers below root that are not read-only are destroyed, and so are
\* the leaves below root when deleteItems is set.
C8_ReadOnlyRootStays ==
    [][(/\ call'.op = "Delete" /\ ~call'.force
        /\ i_children[call'.item] >= 0
        /\ "RO" \in i_flags[call'.item]) =>
           /\ call'.ret = "VLC_SUCCESS"
           /\ ~Unregistered(call'.item)
           /\ call'.item \notin freed'
           /\ i_flags'[call'.item] = i_flags[call'.item]
           /\ p_parent'[call'.item] = p_parent[call'.item]
           /\ p_parent[call'.item] # NULL =>
                  pp_children'[p_parent[call'.item]] =
                      pp_children[p_parent[call'.item]]
           /\ \A k \in 1..Len(events') :
                  ~(events'[k][1] = "item-deleted"
                        /\ events'[k][2] = call'.item)
           /\ \A n \in Below(call'.item) :
                  /\ (i_children[n] >= 0 /\ "RO" \notin i_flags[n]) =>
                         Destroyed(n)
                  /\ (i_children[n] = -1 /\ call'.del) => Destroyed(n)
      ]_vars

\* An unforced Delete of a read-only container that is a child: a container
\* and a leaf below it are gone and the root is where it was.
C8_Witness ==
    /\ call.op = "Delete" /\ ~call.force /\ call.del
    /\ call.ret = "VLC_SUCCESS"
    /\ "RO" \in i_flags[call.item]
    /\ call.item \notin freed
    /\ call.parent # NULL
    /\ IndexOf(pp_children[call.parent], call.item) = call.idx
    /\ \E n \in call.sub : i_children[n] >= 0 /\ n \in freed
    /\ \E n \in call.sub : i_children[n] = -1 /\ n \in freed

\* The nodes of n's subtree in document order: n, then the subtrees of its
\* children in the order of the children array.
RECURSIVE PreOrder(_)
RECURSIVE PreOrderFrom(_, _)
PreOrder(n) == <<n>> \o PreOrderFrom(n, 1)

PreOrderFrom(n, k) ==
    IF k > i_children[n] THEN <<>>
    ELSE PreOrder(pp_children[n][k]) \o PreOrderFrom(n, k + 1)

\* The index of x in seq, 0 when x is no entry (the cursor before the first
\* element).
PosIn(seq, x) ==
    IF \E k \in 1..Len(seq) : seq[k] = x
    THEN CHOOSE k \in 1..Len(seq) : seq[k] = x
    ELSE 0

\* The first entry of seq after index j that is a leaf passing the filters,
\* or NULL.
FirstLeafAfter(seq, j, b_ena, b_unplayed) ==
    LET ok == {k \in (j + 1)..Len(seq) :
                  /\ i_children[seq[k]] = -1
                  /\ b_ena => "DBL" \notin i_flags[seq[k]]
                  /\ b_unplayed => i_nb_played[seq[k]] = 0}
    IN IF ok = {} THEN NULL
       ELSE seq[CHOOSE k \in ok : \A m \in ok : k <= m]

\* The nodes GetNextItem returns from cursor p_item on, each result fed
\* back as the cursor, until it returns NULL or the fuel is spent.
RECURSIVE ItemChain(_, _, _)
ItemChain(p_root, p_item, fuel) ==
    IF fuel = 0 THEN <<>>
    ELSE Then(GetNextItem(p_root, p_item), LAMBDA p_n :
             IF p_n = NULL THEN <<>>
             ELSE IF p_n = Crash THEN <<Crash>>
             ELSE <<p_n>> \o ItemChain(p_root, p_n, fuel - 1))

\* C3: without filters, if NextLeaf(root, L) returns a leaf M for a leaf L
\* below the container root, PrevLeaf(root, M) returns L; and if
\* PrevLeaf(root, L) returns a leaf M, NextLeaf(root, M) returns L.
C3_LeafRoundTrip ==
    (/\ call.op \in {"NextLeaf", "PrevLeaf"}
     /\ ~call.ena /\ ~call.unplayed
     /\ i_children[call.root] >= 0
     /\ call.item \in Below(call.root) /\ i_children[call.item] = -1
     /\ call.node \in Below(call.root)) =>
        IF call.op = "NextLeaf"
        THEN playlist_GetPrevLeaf(call.root, call.node, FALSE, FALSE)
                 = call.item
        ELSE playlist_GetNextLeaf(call.root, call.node, FALSE, FALSE)
                 = call.item

\* C4: AllEnabledChildren(root) on a container returns the leaves below
\* root without the duplicate flag, each once, in document order, whatever
\* the nesting, and the count it returns is the length of that sequence.
C4_EnabledLeavesInPreOrder ==
    (call.op = "AllEnabledChildren" /\ i_children[call.root] >= 0) =>
        /\ call.items =
               SelectSeq(Tail(PreOrder(call.root)),
                         LAMBDA n : i_children[n] = -1
                                        /\ "DBL" \notin i_flags[n])
        /\ call.count = Len(call.items)

\* AllEnabledChildren was called on a root with a leaf two levels down,
\* left a flagged leaf out and returned several leaves.
C4_Witness ==
    /\ call.op = "AllEnabledChildren"
    /\ call.count >= 2
    /\ \E n \in Below(call.root) :
           i_children[n] = -1 /\ "DBL" \in i_flags[n]
    /\ \E k \in 1..Len(call.items) :
           p_parent[call.items[k]] # call.root

\* C6: NextItem(root, current) is the successor of current in the document
\* order of the nodes strictly below root (the first of them for current =
\* none, none after the last), so that the walk from none returns each of
\* them once, in that order, and then none.
C6_NextItemIsPreOrderSuccessor ==
    (/\ call.op = "NextItem"
     /\ i_children[call.root] >= 0
     /\ call.item \in Below(call.root) \cup {NULL}) =>
        LET seq == Tail(PreOrder(call.root))
            j   == PosIn(seq, call.item)
        IN /\ call.node = IF j < Len(seq) THEN seq[j + 1] ELSE NULL
           /\ call.item = NULL => ItemChain(call.root, NULL, Arena + 1) = seq

\* The example: the root's children are A and B, A's children are A1 and
\* A2, and NextItem(root, A2) returned B through the uncle lookup.
C6_Witness ==
    /\ call.op = "NextItem"
    /\ Len(pp_children[call.root]) = 2
    /\ i_children[pp_children[call.root][1]] = 2
    /\ i_children[pp_children[call.root][2]] = -1
    /\ call.item = pp_children[pp_children[call.root][1]][2]
    /\ i_children[call.item] = -1
    /\ call.node = pp_children[call.root][2]

\* C7 as stated: for a container root, a cursor that is none or a node of
\* root's subtree (root included) and any filters, NextLeaf returns the
\* first leaf after the cursor in the document order of root's subtree that
\* passes the active filters, or none when there is no such leaf; never a
\* container, never root.
C7_NextLeafFromSubtree ==
    (/\ call.op = "NextLeaf"
     /\ i_children[call.root] >= 0
     /\ call.item \in {call.root} \cup Below(call.root) \cup {NULL}) =>
        LET seq == PreOrder(call.root)
        IN call.node = FirstLeafAfter(seq, PosIn(seq, call.item),
                                      call.ena, call.unplayed)

\* C7 as amended: the same for a cursor that is none or a node strictly
\* below root.
C7_NextLeafFromBelow ==
    (/\ call.op = "NextLeaf"
     /\ i_children[call.root] >= 0
     /\ call.item \in Below(call.root) \cup {NULL}) =>
        LET seq == PreOrder(call.root)
        IN call.node = FirstLeafAfter(seq, PosIn(seq, call.item),
                                      call.ena, call.unplayed)

\* NextLeaf with both filters, from a cursor below root, went through a
\* container and over a leaf that fails a filter and returned a leaf.
C7_Witness ==
    /\ call.op = "NextLeaf" /\ call.ena /\ call.unplayed
    /\ call.item \in Below(call.root)
    /\ call.node \in Below(call.root)
    /\ LET seq == PreOrder(call.root)
       IN /\ \E k \in (PosIn(seq, call.item) + 1)..(PosIn(seq, call.node) - 1) :
                 i_children[seq[k]] >= 0
          /\ \E k \in (PosIn(seq, call.item) + 1)..(PosIn(seq, call.node) - 1) :
                 i_children[seq[k]] = -1

\* n is a container with the read-only flag.
ReadOnlyContainer(n) == i_children[n] >= 0 /\ "RO" \in i_flags[n]

C12_PairSharesDescriptor ==
    [][call'.op = "PairCreate" =>
           /\ call'.ret = "node"
           /\ call'.item # call'.node
           /\ {call'.item, call'.node} \cap Allocated = {}
           /\ {call'.item, call'.node} \subseteq 1..i_last_id'
           /\ pp_children'[playlist.p_root_category] =
                  Append(pp_children[playlist.p_root_category], call'.item)
           /\ pp_children'[playlist.p_root_onelevel] =
                  Append(pp_children[playlist.p_root_onelevel], call'.node)
           /\ p_input'[call'.item] = p_input'[call'.node]
           /\ p_input'[call'.item] # NULL
           /\ \A n \in {call'.item, call'.node} :
                  IF call'.force
                  THEN {"RO", "SKIP"} \subseteq i_flags'[n]
                  ELSE {"RO", "SKIP"} \cap i_flags'[n] = {}
      ]_vars

\* A pair for service discovery was created after another pair: its nodes
\* are the second children of the two roots.
C12_Witness ==
    /\ call.op = "PairCreate" /\ call.force
    /\ Len(pp_children[playlist.p_root_category]) >= 2
    /\ Len(pp_children[playlist.p_root_onelevel]) >= 2
    /\ Last(pp_children[playlist.p_root_category]) = call.item
    /\ Last(pp_children[playlist.p_root_onelevel]) = call.node
    /\ "SKIP" \in i_flags[call.item] \cap i_flags[call.node]

\* The first entry of root's children with the descriptor of n, or NULL.
Counterpart(root, n) ==
    LET ks == {k \in 1..Len(pp_children[root]) :
                   p_input[pp_children[root][k]] = p_input[n]}
    IN IF ks = {} THEN NULL
       ELSE pp_children[root][CHOOSE k \in ks : \A m \in ks : k <= m]

LeadingContainers(n) ==
    {k \in 1..Len(pp_children[n]) :
         \A j \in 1..k : i_children[pp_children[n][j]] >= 0}

\* The sum of f over the finite set S.
RECURSIVE SumOver(_, _)
SumOver(S, f) ==
    IF S = {} THEN 0
    ELSE LET x == CHOOSE y \in S : TRUE
         IN f[x] + SumOver(S \ {x}, f)

\* The count as stated: 0 for a leaf; for a container the number of its
\* children plus the counts of the children before the first leaf child.
RECURSIVE StatedCount(_)
StatedCount(n) ==
    IF i_children[n] = -1 THEN 0
    ELSE Len(pp_children[n])
         + SumOver(LeadingContainers(n),
                   [k \in LeadingContainers(n) |->
                        StatedCount(pp_children[n][k])])

\* C13: ChildrenCount(node) is 0 for a leaf and, for a container, the
\* number of its immediate children plus the sum of ChildrenCount over the
\* children that precede its first leaf child; so it is 2 for
\* [leaf, container of 2 leaves] and 4 for [container of 2 leaves, leaf].
C13_CountStopsAtFirstLeaf ==
    call.op = "ChildrenCount" =>
        /\ call.count = StatedCount(call.item)
        /\ i_children[call.item] = -1 => call.count = 0
        /\ (/\ i_children[call.item] = 2
            /\ i_children[pp_children[call.item][1]] = -1
            /\ i_children[pp_children[call.item][2]] = 2
            /\ \A n \in Children(pp_children[call.item][2]) :
                   i_children[n] = -1) => call.count = 2
        /\ (/\ i_children[call.item] = 2
            /\ i_children[pp_children[call.item][2]] = -1
            /\ i_children[pp_children[call.item][1]] = 2
            /\ \A n \in Children(pp_children[call.item][1]) :
                   i_children[n] = -1) => call.count = 4

\* ChildrenCount was called on [leaf, container of 2 leaves].
C13_Witness ==
    /\ call.op = "ChildrenCount"
    /\ i_children[call.item] = 2
    /\ i_children[pp_children[call.item][1]] = -1
    /\ i_children[pp_children[call.item][2]] = 2
    /\ \A n \in Children(pp_children[call.item][2]) : i_children[n] = -1
    /\ call.count = 2

\* The leaves of root's subtree in document order.
LeavesInOrder(root) ==
    SelectSeq(Tail(PreOrder(root)), LAMBDA n : i_children[n] = -1)

\* C14: LastLeaf(root) on a container returns the last leaf of root's
\* subtree in document order, whatever empty containers the subtree holds,
\* and none exactly when the subtree holds no leaf; NextLeaf(root, L)
\* without filters is none for the leaf L it returns.
C14_LastLeafIsLastInPreOrder ==
    (call.op = "LastLeaf" /\ i_children[call.root] >= 0) =>
        LET ls == LeavesInOrder(call.root)
        IN /\ call.node = IF ls = <<>> THEN NULL ELSE ls[Len(ls)]
           /\ call.node # NULL =>
                  playlist_GetNextLeaf(call.root, call.node, FALSE, FALSE)
                      = NULL

\* LastLeaf returned a leaf that lies below a sub-container of root and
\* comes before a later sub-container of root, which holds no leaf.
C14_Witness ==
    /\ call.op = "LastLeaf"
    /\ call.node # NULL
    /\ i_children[call.root] >= 2
    /\ p_parent[call.node] # call.root
    /\ \E k \in 2..Len(pp_children[call.root]) :
           /\ i_children[pp_children[call.root][k]] >= 0
           /\ call.node \notin Reach({pp_children[call.root][k]})

\* C16: for a container root and a cursor that is none or a node below
\* root, NextLeaf and PrevLeaf with any filters complete normally and
\* return none or a leaf: the call does not abort, fail an assertion or read
\* through a missing parent.
C16_LeafWalksNeverFault ==
    (/\ call.op \in {"NextLeaf", "PrevLeaf"}
     /\ i_children[call.root] >= 0
     /\ call.item \in Below(call.root) \cup {NULL}) =>
        /\ call.ret # "fault"
        /\ ~fault
        /\ call.node = NULL
               \/ (call.node \in Live /\ i_children[call.node] = -1)

\* The event <<kind, id, arg>> is among the first k - 1 events of the call
\* that made the step, at an index above lo.
Before(k, lo, kind, id, arg) ==
    \E j \in (lo + 1)..(k - 1) : events'[j] = <<kind, id, arg>>

\* C17: in a Delete (or an Empty, which deletes the sub-containers) every
\* container that is released was announced as deleted and taken out of the
\* registry before, then detached from the children of its parent (when it
\* is among them), and released only after that; the registry never holds a released container; every
\* container below it that is released is released before it.
C17_ReleaseComesLast ==
    [][call'.op \in {"Delete", "Empty"} =>
           \A k \in 1..Len(events') :
               (events'[k][1] = "freed" /\ i_children[events'[k][2]] >= 0) =>
                   LET n == events'[k][2]
                   IN /\ \E a \in 1..(k - 1), b \in 1..(k - 1) :
                             /\ events'[a] = <<"item-deleted", n, 0>>
                             /\ events'[b] = <<"unregistered", n, 0>>
                             /\ (/\ p_parent[n] # NULL
                                 /\ n \in Children(p_parent[n])) =>
                                    /\ Before(k, a, "detached", n, p_parent[n])
                                    /\ Before(k, b, "detached", n, p_parent[n])
                      /\ \A j \in 1..Len(events') :
                             events'[j] = <<"freed", n, 0>> => j = k
                      /\ Unregistered(n)
                      /\ \A m \in Below(n) :
                             (i_children[m] >= 0 /\ m \in freed') =>
                                 Before(k, 0, "freed", m, 0)
      ]_vars

\* A Delete released a container that was a child and a container below
\* it.
C17_Witness ==
    /\ call.op = "Delete"
    /\ call.ret = "VLC_SUCCESS"
    /\ call.parent # NULL
    /\ call.item \in freed
    /\ \E k \in 1..Len(events) :
           events[k] = <<"detached", call.item, call.parent>>
    /\ \E m \in call.sub : i_children[m] >= 0 /\ m \in freed

\* C18: after a successful Create the new node is an empty container, is
\* registered once in all_items, is the last child of the parent given and
\* nowhere else with p_parent set to it (or has no parent and is nobody's
\* child when none was given), and the call sent exactly one add
\* notification, with the node's id and the parent's id or -1.
C18_CreateYieldsEmptyContainer ==
    (call.op = "Create" /\ call.ret = "node") =>
        LET n == call.item
        IN /\ n \in Live
           /\ i_children[n] = 0
           /\ pp_children[n] = <<>>
           /\ Count(all_items, n) = 1
           /\ p_parent[n] = call.parent
           /\ call.parent # NULL =>
                  /\ Last(pp_children[call.parent]) = n
                  /\ Count(pp_children[call.parent], n) = 1
           /\ \A c \in Containers \ {call.parent} :
                  Count(pp_children[c], n) = 0
           /\ events = <<<<"added", n,
                           IF call.parent # NULL THEN call.parent ELSE -1>>>>

\* A node was created below a container that had a child already.
C18_Witness ==
    /\ call.op = "Create"
    /\ call.ret = "node"
    /\ call.parent # NULL
    /\ Len(pp_children[call.parent]) >= 2
    /\ Last(pp_children[call.parent]) = call.item

\* C19: an Insert at a position between 0 and the number of children puts
\* the item at that index, keeps the children before it where they were and
\* moves the others up by one, sets the item's parent, makes the children
\* one longer, and changes no other node's children; the end sentinel -1
\* (which Append passes) acts as the number of children.
C19_InsertKeepsOrder ==
    [][call'.op \in {"Insert", "Append"} =>
           LET p == call'.parent
               n == call'.item
               old == pp_children[p]
               new == pp_children'[p]
               pos == IF call'.pos = -1 THEN Len(old) ELSE call'.pos
           IN /\ ~fault'
              /\ Len(new) = Len(old) + 1
              /\ i_children'[p] = i_children[p] + 1
              /\ new[pos + 1] = n
              /\ \A k \in 1..pos : new[k] = old[k]
              /\ \A k \in (pos + 1)..Len(old) : new[k + 1] = old[k]
              /\ p_parent'[n] = p
              /\ \A c \in Nodes \ {p} :
                     /\ pp_children'[c] = pp_children[c]
                     /\ i_children'[c] = i_children[c]
      ]_vars

\* An Insert put an item between two children.
C19_Witness ==
    /\ call.op = "Insert"
    /\ call.pos = 1
    /\ Len(pp_children[call.parent]) = 3
    /\ pp_children[call.parent][2] = call.item
    /\ pp_children[call.parent][1] # pp_children[call.parent][3]

\* No node occurs twice among the values the loop variable of the call in
\* progress has taken, the cursor the call was given included, and no leaf
\* is returned twice in one iteration.
NoCursorTwice ==
    /\ \A j \in 1..Len(call.items), k \in 1..Len(call.items) :
           (call.items[j] # NULL /\ call.items[j] = call.items[k]) => j = k
    /\ \A k \in 1..Len(call.items) :
           call.items[k] # NULL =>
               call.items[k] # call.item /\ call.items[k] \notin call.sub

\* C20: on every tree, for every container root and both filters, the
\* iteration that starts with playlist_GetNextLeaf at the cursor NULL and
\* calls again with each leaf returned comes to return NULL; every
\* playlist_GetNextLeaf and playlist_GetPrevLeaf call leaves its loop (it
\* returns, or the process ends in it); and no cursor is visited twice.
C20_LeafIterationTerminates ==
    /\ [](call.op \in {"NextLeaf", "PrevLeaf"} => NoCursorTwice)
    /\ (call.op = "NextLeaf" /\ call.item = NULL /\ n_calls = 1)
           ~> (call.op = "NextLeaf" /\ call.ret = "node" /\ call.node = NULL)
    /\ (call.ret = "running") ~> (call.ret \in {"node", "fault"})

\* An iteration from the cursor NULL returned two leaves and then NULL, and
\* its last call passed over a node without returning it.
C20_Witness ==
    /\ call.op = "NextLeaf"
    /\ call.ret = "node"
    /\ call.node = NULL
    /\ Cardinality(call.sub) >= 2
    /\ n_calls = Cardinality(call.sub) + 1
    /\ Len(call.items) >= 2

\* C21: after a Delete or an Empty has returned, every node that is still
\* registered in all_items has no parent or a parent that has not been
\* released.
C21_NoReleasedParent ==
    (call.op \in {"Delete", "Empty"} /\ ~fault) =>
        \A k \in 1..Len(all_items) :
            \/ p_parent[all_items[k]] = NULL
            \/ p_parent[all_items[k]] \notin freed

\* c and o are the two nodes of a pair as playlist_NodesPairCreate makes
\* them (c with a new descriptor, o the next node with c's descriptor), each
\* still a child of its root.
AttachedPair(c, o) ==
    /\ c \in Live /\ o \in Live
    /\ o = c + 1
    /\ p_input[c] = c /\ p_input[o] = c
    /\ p_parent[c] = playlist.p_root_category
    /\ Count(pp_children[playlist.p_root_category], c) > 0
    /\ p_parent[o] = playlist.p_root_onelevel
    /\ Count(pp_children[playlist.p_root_onelevel], o) > 0

\* C22: when PreferredNode has been asked for one node of an attached pair,
\* the node it returned is the one PreferredNode gives for the other node of
\* the pair, whatever the grouping settings and the descriptor's hint are.
C22_PairAgreesOnPreferred ==
    call.op = "PreferredNode" =>
        \A m \in Live :
            (AttachedPair(call.item, m) \/ AttachedPair(m, call.item)) =>
                call.node = playlist_GetPreferredNode(m)

====
